---- MODULE Spec2Model ----
(***************************************************************************)
(* A model of cotk/dataloader/field.py: the _SentenceContent life cycle    *)
(* (read_next, process_before_vocab, get_data), the Sentence /             *)
(* SentenceGPT2 field operations on id sequences and batches, and the      *)
(* construction of a field and of its contents.                            *)
(*                                                                         *)
(* Strings are sequences of one-character strings. An optional Python      *)
(* value is None (the empty tuple) or Some(v) (a one-element tuple).       *)
(***************************************************************************)
EXTENDS Integers, Sequences, FiniteSets, TLC

\* ------------------------------------------------------------------ bounds

\* At most this many records are ingested into the content.
MaxRecords == 2
\* At most this many add_tokens calls reach the vocabulary.
MaxAddCalls == 2

\* ------------------------------------------------------------- basic values

None == <<>>
Some(v) == <<v>>

RECURSIVE SumSeq(_)
SumSeq(s) == IF s = <<>> THEN 0 ELSE Head(s) + SumSeq(Tail(s))

RECURSIVE chain(_)
\* itertools.chain(*lists): the concatenation of the lists, in order.
chain(lists) == IF lists = <<>> THEN <<>> ELSE Head(lists) \o chain(Tail(lists))

\* Number of positions of s holding x.
Occurrences(x, s) == Cardinality({i \in 1..Len(s) : s[i] = x})

Min(a, b) == IF a < b THEN a ELSE b
Max(a, b) == IF a > b THEN a ELSE b

\* Python's seq[:stop] for stop None or an int (a negative stop counts from the end).
SliceTo(s, stop) ==
    IF stop = None THEN s
    ELSE IF stop[1] >= 0 THEN SubSeq(s, 1, Min(Len(s), stop[1]))
    ELSE SubSeq(s, 1, Max(Len(s) + stop[1], 0))

\* ------------------------------------------------------------------ strings

Whitespace == {" ", "\n"}

\* The lines the data file iterator can yield.
Lines ==
    { <<"\n">>,
      <<" ", "\n">>,
      <<"i", "\n">>,
      <<"I", "\n">>,
      <<"I", " ", "i", "\n">>,
      <<"i", " ", "I", " ", "\n">>,
      <<" ", "i">> }

RECURSIVE rstrip(_)
\* str.rstrip(): the string without its trailing whitespace.
rstrip(s) ==
    IF s = <<>> THEN s
    ELSE IF s[Len(s)] \in Whitespace THEN rstrip(SubSeq(s, 1, Len(s) - 1))
    ELSE s

\* str.lower() on the model's alphabet.
LowerChar(c) == IF c = "I" THEN "i" ELSE c
lower(s) == [i \in 1..Len(s) |-> LowerChar(s[i])]

RECURSIVE SplitFrom(_, _, _)
\* The whitespace-delimited words of s from position i on; cur is the word being read.
SplitFrom(s, i, cur) ==
    IF i > Len(s) THEN (IF cur = <<>> THEN <<>> ELSE <<cur>>)
    ELSE IF s[i] \in Whitespace
         THEN (IF cur = <<>> THEN <<>> ELSE <<cur>>) \o SplitFrom(s, i + 1, <<>>)
         ELSE SplitFrom(s, i + 1, Append(cur, s[i]))

\* The tokenizer: SimpleTokenizer("space"), sentence.split() on every sentence.
Tokenizer_tokenize_sentences(sentences) ==
    [k \in 1..Len(sentences) |-> SplitFrom(sentences[k], 1, <<>>)]

\* ------------------------------------------------------ order-independent hash

\* Byte value of a character of a serialization.
Code(c) ==
    CASE c = "i" -> 105 [] c = "I" -> 73 [] c = " " -> 32 [] c = "\n" -> 10
      [] c = "\"" -> 34 [] c = "[" -> 91 [] c = "]" -> 93 [] c = "," -> 44
      [] OTHER -> 63

\* json.dumps of a str, as bytes.
DumpsStr(s) == <<"\"">> \o s \o <<"\"">>

RECURSIVE DumpsItems(_)
DumpsItems(l) ==
    IF l = <<>> THEN <<>>
    ELSE IF Len(l) = 1 THEN DumpsStr(l[1])
    ELSE DumpsStr(l[1]) \o <<",", " ">> \o DumpsItems(Tail(l))

\* json.dumps of a list of str, as bytes.
DumpsList(l) == <<"[">> \o DumpsItems(l) \o <<"]">>

\* Width of a digest, in bytes.
DigestSize == 2

RECURSIVE PolyHash(_, _)
PolyHash(bytes, h) ==
    IF bytes = <<>> THEN h
    ELSE PolyHash(Tail(bytes), (h * 31 + Code(Head(bytes))) % 65536)

\* The digest of a byte string: a stand-in for hashlib.sha256(data).digest().
Sha256Digest(bytes) ==
    LET h == PolyHash(bytes, 7) IN <<h \div 256, h % 256>>

\* UnorderedSha256(): the zero accumulator.
UnorderedSha256 == [i \in 1..DigestSize |-> 0]

\* UnorderedSha256.update_data: add the record's digest bytewise, modulo 256.
update_data(acc, bytes) ==
    LET d == Sha256Digest(bytes) IN [i \in 1..DigestSize |-> (acc[i] + d[i]) % 256]

HexDigit(n) ==
    CASE n < 10 -> <<"0", "1", "2", "3", "4", "5", "6", "7", "8", "9">>[n + 1]
      [] OTHER -> <<"a", "b", "c", "d", "e", "f">>[n - 9]

\* UnorderedSha256.hexdigest: two lower-case hex digits per byte.
hexdigest(acc) == chain([i \in 1..DigestSize |-> <<HexDigit(acc[i] \div 16), HexDigit(acc[i] % 16)>>])

\* ------------------------------------------------------------ call outcomes

\* A call returns a value or raises an exception.
Return(v) == [raised |-> "", value |-> v]
Raise(e) == [raised |-> e, value |-> None]

\* Python's list[i]: i counts from the end when negative; out of range raises.
InRange(list, i) == -Len(list) <= i /\ i < Len(list)
Index(list, i) == IF i >= 0 THEN list[i + 1] ELSE list[Len(list) + i + 1]

\* ---------------------------------------------------------------- vocabulary

\* Reserved ids of the closed vocabulary: "<pad>", "<unk>", "<go>", "<eos>".
PadId == 0
UnkId == 1
GoId == 2
EosId == 3
SpecialTokens == << <<"<pad>">>, <<"<unk>">>, <<"<go>">>, <<"<eos>">> >>

Roles == {"train", "test", "extra"}

\* The vocabulary while it is built: the add_tokens calls it has received.
EmptyVocab == [log |-> <<>>, frozen |-> FALSE]

\* Vocab.add_tokens(tokens, vocab_from): fails once the vocabulary is frozen.
add_tokens(vocab, tokens, vocab_from) ==
    IF vocab.frozen THEN Raise("RuntimeError")
    ELSE Return([vocab EXCEPT !.log = Append(@, [tokens |-> tokens, vocab_from |-> vocab_from])])

RECURSIVE TokensOf(_, _)
\* The tokens registered under one of the roles, in registration order.
TokensOf(log, roles) ==
    IF log = <<>> THEN <<>>
    ELSE (IF Head(log).vocab_from \in roles THEN Head(log).tokens ELSE <<>>)
         \o TokensOf(Tail(log), roles)

\* Registered count of a token under a role.
VocabCount(vocab, role, token) == Occurrences(token, TokensOf(vocab.log, {role}))

RECURSIVE Distinct(_, _)
\* The tokens of s not in seen, each once, in first-seen order.
Distinct(s, seen) ==
    IF s = <<>> THEN <<>>
    ELSE IF Head(s) \in seen THEN Distinct(Tail(s), seen)
    ELSE <<Head(s)>> \o Distinct(Tail(s), seen \cup {Head(s)})

RECURSIVE InsertByFreq(_, _, _)
\* sorted with token t inserted after every token at least as frequent in all.
InsertByFreq(sorted, t, all) ==
    IF sorted = <<>> THEN <<t>>
    ELSE IF Occurrences(Head(sorted), all) >= Occurrences(t, all)
         THEN <<Head(sorted)>> \o InsertByFreq(Tail(sorted), t, all)
         ELSE <<t>> \o sorted

RECURSIVE SortByFreq(_, _)
\* tokens by frequency in all, descending; ties keep their first-seen order.
SortByFreq(tokens, all) ==
    IF tokens = <<>> THEN <<>>
    ELSE InsertByFreq(SortByFreq(SubSeq(tokens, 1, Len(tokens) - 1), all),
                      tokens[Len(tokens)], all)

\* The frozen closed vocabulary built from the registered tokens: the reserved
\* tokens, then the train tokens (the frequent set), then the tokens seen only
\* under test or extra.
Freeze(log) ==
    LET train == TokensOf(log, {"train"})
        other == TokensOf(log, {"test", "extra"})
        frequent == SortByFreq(Distinct(train, {}), train)
        rare == SortByFreq(Distinct(other, {train[i] : i \in 1..Len(train)}), other)
    IN [all_vocab_list |-> SpecialTokens \o frequent \o rare,
        frequent_vocab_size |-> Len(SpecialTokens) + Len(frequent),
        pad_id |-> PadId, unk_id |-> UnkId, go_id |-> GoId, eos_id |-> EosId]

\* Position of token in list, counting from 0; -1 when absent.
Find(list, token) ==
    IF \E i \in 1..Len(list) : list[i] = token
    THEN (CHOOSE i \in 1..Len(list) : list[i] = token /\ \A j \in 1..(i - 1) : list[j] # token) - 1
    ELSE -1

\* Vocab.convert_tokens_to_ids on a frozen vocabulary v.
Vocab_convert_tokens_to_ids(v, tokens, only_frequent_word) ==
    [k \in 1..Len(tokens) |->
        LET id == Find(v.all_vocab_list, tokens[k]) IN
        IF id < 0 THEN v.unk_id
        ELSE IF only_frequent_word /\ id >= v.frequent_vocab_size THEN v.unk_id
        ELSE id]

\* _utils.trim_before_target(lists, target): the part of lists before the
\* first occurrence of target (all of lists when target does not occur).
trim_before_target(lists, target) ==
    IF \E i \in 1..Len(lists) : lists[i] = target
    THEN SubSeq(lists, 1, (CHOOSE i \in 1..Len(lists) :
                               lists[i] = target /\ \A j \in 1..(i - 1) : lists[j] # target) - 1)
    ELSE lists


\* --------------------------------------------------------------------- fields

\* Field.DEFAULT_VOCAB_FROM: set name -> role.
DEFAULT_VOCAB_FROM ==
    [n \in {"train", "training", "dev", "development", "valid", "validation",
            "test", "evaluation"} |->
        IF n \in {"train", "training"} THEN "train" ELSE "test"]

\* The two concrete fields.
Variants == {"Sentence", "SentenceGPT2"}

\* SentenceBase.tokenize_sentences: tokenize, then lower-case every token when
\* convert_to_lower_letter is set.
tokenize_sentences(convert_to_lower_letter, sentences) ==
    LET tokenized_sentences == Tokenizer_tokenize_sentences(sentences) IN
    IF convert_to_lower_letter
    THEN [k \in 1..Len(tokenized_sentences) |->
            [j \in 1..Len(tokenized_sentences[k]) |-> lower(tokenized_sentences[k][j])]]
    ELSE tokenized_sentences

\* Sentence.add_special_to_ids
Sentence_add_special_to_ids(v, ids) == <<v.go_id>> \o ids \o <<v.eos_id>>

\* SentenceGPT2.add_special_to_ids
SentenceGPT2_add_special_to_ids(v, ids) == <<v.eos_id>> \o ids \o <<v.eos_id>>

add_special_to_ids(variant, v, ids) ==
    IF variant = "Sentence" THEN Sentence_add_special_to_ids(v, ids)
    ELSE SentenceGPT2_add_special_to_ids(v, ids)

\* SentenceBase.convert_tokens_to_ids
convert_tokens_to_ids(variant, v, tokens, add_special, only_frequent_word) ==
    LET ids == Vocab_convert_tokens_to_ids(v, tokens, only_frequent_word) IN
    IF add_special THEN add_special_to_ids(variant, v, ids) ELSE ids

\* A removal that never drops the leading go_id.
_remove_special_in_ids_keep_go(ids, go_id, eos_id) ==
    IF ids = <<>> THEN ids
    ELSE SubSeq(ids, 1, IF ids[Len(ids)] = eos_id THEN Len(ids) - 1 ELSE Len(ids))

\* SentenceBase._remove_special_in_ids: ids[st:ed] with st 1 when ids starts
\* with go_id and ed -1 when ids ends with eos_id.
_remove_special_in_ids(ids, go_id, eos_id) ==
    IF ids = <<>> THEN ids
    ELSE LET st == IF ids[1] = go_id THEN 1 ELSE 0
             ed == IF ids[Len(ids)] = eos_id THEN Len(ids) - 1 ELSE Len(ids)
         IN SubSeq(ids, st + 1, ed)

RECURSIVE StripTrailing(_, _)
\* The while loop of Sentence.trim_in_ids: drop the trailing pad ids.
StripTrailing(ids, pad_id) ==
    IF Len(ids) > 0 /\ ids[Len(ids)] = pad_id
    THEN StripTrailing(SubSeq(ids, 1, Len(ids) - 1), pad_id)
    ELSE ids

\* Sentence.trim_in_ids
Sentence_trim_in_ids(v, ids) ==
    Return(StripTrailing(trim_before_target(ids, v.eos_id), v.pad_id))

\* A trim that cuts at the first boundary id, the one at position 0 included.
SentenceGPT2_trim_in_ids_naive(v, ids) == Return(trim_before_target(ids, v.eos_id))

\* SentenceGPT2.trim_in_ids: ids[0] raises IndexError on an empty list.
SentenceGPT2_trim_in_ids(v, ids) ==
    IF ids = <<>> THEN Raise("IndexError")
    ELSE IF ids[1] = v.eos_id
         THEN Return(<<v.eos_id>> \o trim_before_target(Tail(ids), v.eos_id))
         ELSE Return(trim_before_target(ids, v.eos_id))

trim_in_ids(variant, v, ids) ==
    IF variant = "Sentence" THEN Sentence_trim_in_ids(v, ids)
    ELSE SentenceGPT2_trim_in_ids(v, ids)

\* Sentence.remove_special_in_ids / SentenceGPT2.remove_special_in_ids
remove_special_in_ids(variant, v, ids, remove_special, trim) ==
    LET trimmed == IF trim THEN trim_in_ids(variant, v, ids) ELSE Return(ids)
        go_id == IF variant = "Sentence" THEN v.go_id ELSE v.eos_id
    IN IF trimmed.raised # "" THEN trimmed
       ELSE IF remove_special
            THEN Return(_remove_special_in_ids(trimmed.value, go_id, v.eos_id))
            ELSE trimmed

\* A cut that keeps the last max_sent_length ids instead of the first.
CutSentence_keep_last(max_sent_length, sentence) ==
    IF max_sent_length = None THEN sentence
    ELSE SubSeq(sentence, Max(Len(sentence) - max_sent_length[1], 0) + 1, Len(sentence))

\* The cut of SentenceBase.process_sentences: sentence[:max_sent_length].
CutSentence(max_sent_length, sentence) == SliceTo(sentence, max_sent_length)

\* A process_sentences that answers an empty list of sentences with an empty
\* result, and an empty first token list with its (wrapped) empty id sequence.
process_sentences_accept_empty(variant, v, field, sentences, is_str, add_special, cut, only_frequent_word) ==
    LET tokenized == IF is_str
                     THEN tokenize_sentences(field.convert_to_lower_letter, sentences)
                     ELSE sentences
        ids == [k \in 1..Len(tokenized) |->
                   convert_tokens_to_ids(variant, v, tokenized[k], add_special,
                                         only_frequent_word)]
    IN IF cut
       THEN Return([k \in 1..Len(ids) |-> CutSentence(field.max_sent_length, ids[k])])
       ELSE Return(ids)

\* SentenceBase.process_sentences. sentences is None (the empty tuple), a list
\* of str (is_str) or a list of token lists. With cut set and more than one
\* sentence, the cut percentage of the log line is computed, which divides by
\* the total length before the cut.
process_sentences(variant, v, field, sentences, is_str, add_special, cut, only_frequent_word) ==
    IF sentences = <<>> THEN Raise("ValueError")
    ELSE IF ~is_str /\ sentences[1] = <<>> THEN Raise("ValueError")
    ELSE LET tokenized == IF is_str
                          THEN tokenize_sentences(field.convert_to_lower_letter, sentences)
                          ELSE sentences
             ids == [k \in 1..Len(tokenized) |->
                        convert_tokens_to_ids(variant, v, tokenized[k], add_special,
                                              only_frequent_word)]
             before_lengths == [k \in 1..Len(ids) |-> Len(ids[k])]
         IN IF cut
            THEN IF Len(ids) > 1 /\ SumSeq(before_lengths) = 0
                 THEN Raise("ZeroDivisionError")
                 ELSE Return([k \in 1..Len(ids) |-> CutSentence(field.max_sent_length, ids[k])])
            ELSE Return(ids)

\* np.max over a non-empty list of lengths.
MaxOf(lengths) == CHOOSE m \in {lengths[k] : k \in 1..Len(lengths)} :
                      \A k \in 1..Len(lengths) : lengths[k] <= m

\* The rows of the batch array: sequence indexes[k] left-aligned in a row of
\* the given width, the other cells holding fill.
PaddedRows(data_id, indexes, width, fill) ==
    [k \in 1..Len(indexes) |->
        LET sent == Index(data_id, indexes[k]) IN
        [c \in 1..width |-> IF c <= Len(sent) THEN sent[c] ELSE fill]]

\* A mask that spares the first id beyond the frequent vocabulary.
MaskRare_above(v, rows) ==
    [k \in 1..Len(rows) |->
        [c \in 1..Len(rows[k]) |->
            IF rows[k][c] > v.frequent_vocab_size THEN v.unk_id ELSE rows[k][c]]]

\* res_sent[res_sent >= frequent_vocab_size] = unk_id
MaskRare(v, rows) ==
    [k \in 1..Len(rows) |->
        [c \in 1..Len(rows[k]) |->
            IF rows[k][c] >= v.frequent_vocab_size THEN v.unk_id ELSE rows[k][c]]]

\* The body shared by Sentence._get_batch and SentenceGPT2._get_batch: the
\* lengths, the array filled with fill and the sequences copied in, its copy,
\* the masking (Sentence only) and the strings. The batch's keys are named
\* without the field-name prefix.
Batch(v, data, indexes, fill, mask) ==
    IF \E k \in 1..Len(indexes) : ~InRange(data.id, indexes[k]) THEN Raise("IndexError")
    ELSE IF indexes = <<>> THEN Raise("ValueError")
    ELSE LET length == [k \in 1..Len(indexes) |-> Len(Index(data.id, indexes[k]))]
             res_sent == PaddedRows(data.id, indexes, MaxOf(length), fill)
         IN IF \E k \in 1..Len(indexes) : ~InRange(data.str, indexes[k])
            THEN Raise("IndexError")
            ELSE Return([length |-> length,
                         sent |-> IF mask THEN MaskRare(v, res_sent) ELSE res_sent,
                         allvocabs |-> res_sent,
                         str |-> [k \in 1..Len(indexes) |-> Index(data.str, indexes[k])]])

\* A batch assembler that skips the indexes it cannot look up.
Sentence_get_batch_skip(v, data, indexes) ==
    Batch(v, data, SelectSeq(indexes, LAMBDA i : InRange(data.id, i)), 0, TRUE)

\* Sentence._get_batch: np.zeros, masked at frequent_vocab_size.
Sentence_get_batch(v, data, indexes) == Batch(v, data, indexes, 0, TRUE)

\* A SentenceGPT2 batch padded with zero, as the Sentence batch is.
SentenceGPT2_get_batch_zero_pad(v, data, indexes) == Batch(v, data, indexes, 0, FALSE)

\* SentenceGPT2._get_batch: np.ones * eos_id, no masking.
SentenceGPT2_get_batch(v, data, indexes) == Batch(v, data, indexes, v.eos_id, FALSE)

_get_batch(variant, v, data, indexes) ==
    IF variant = "Sentence" THEN Sentence_get_batch(v, data, indexes)
    ELSE SentenceGPT2_get_batch(v, data, indexes)

\* ---------------------------------------------------------------------- state

VARIABLES
    field,               \* the field's settings
    vocab,               \* the field's vocabulary
    created,             \* whether _create has returned the content
    vocab_from,          \* _SentenceContent.vocab_from
    original_data,       \* _FieldContent._original_data
    tmp_tokenized_data,  \* _SentenceContent._tmp_tokenized_data
    raw_data_hash,       \* _FieldContent._raw_data_hash (None while unset)
    data_hash,           \* _FieldContent._data_hash (None while unset)
    last_op,             \* the last call made
    arg,                 \* its arguments
    ret                  \* its outcome

vars == <<field, vocab, created, vocab_from, original_data, tmp_tokenized_data,
          raw_data_hash, data_hash, last_op, arg, ret>>

contentVars == <<created, vocab_from, original_data, tmp_tokenized_data,
                 raw_data_hash, data_hash>>

\* Largest max_sent_length a field is configured with.
MaxSentLength == 3

\* _FieldContent.__init__ / _SentenceContent.__init__, before _create.
NoContent ==
    /\ created = FALSE
    /\ vocab_from = None
    /\ original_data = <<>>
    /\ tmp_tokenized_data = None
    /\ raw_data_hash = None
    /\ data_hash = None

\* A Sentence field as SentenceBase.__init__ leaves it, its vocabulary empty.
Init ==
    /\ field \in [variant : {"Sentence"},
                  convert_to_lower_letter : BOOLEAN,
                  max_sent_length : {None, Some(MaxSentLength)},
                  vocab_from : {DEFAULT_VOCAB_FROM}]
    /\ vocab = EmptyVocab
    /\ NoContent
    /\ last_op = ""
    /\ arg = None
    /\ ret = Return(None)

\* The set names the pipeline asks a content for.
SetNames == {"train", "dev", "unknown"}

\* SentenceBase._create(set_name)
_create(set_name) ==
    /\ ~created
    /\ last_op' = "_create"
    /\ arg' = set_name
    /\ IF set_name \in DOMAIN field.vocab_from
       THEN /\ created' = TRUE
            /\ vocab_from' = Some(field.vocab_from[set_name])
            /\ ret' = Return(None)
       ELSE /\ ret' = Raise("KeyError")
            /\ UNCHANGED <<created, vocab_from>>
    /\ UNCHANGED <<field, vocab, original_data, tmp_tokenized_data, raw_data_hash, data_hash>>

\* isinstance(self._original_data, list)
IsList(x) == DOMAIN x = 1..Len(x)

\* _FieldContent.read_next(dataset) with _SentenceContent._get_next; next is
\* Some(line), or None when the iterator is exhausted (StopIteration).
read_next(next) ==
    /\ created
    /\ Len(original_data) < MaxRecords
    /\ last_op' = "read_next"
    /\ arg' = next
    /\ IF ~IsList(original_data)
       THEN ret' = Raise("RuntimeError") /\ UNCHANGED original_data
       ELSE IF next = None
       THEN ret' = Raise("StopIteration") /\ UNCHANGED original_data
       ELSE LET sent == rstrip(next[1])
                lines == 1
            IN IF sent = <<>>
               THEN ret' = Return(0) /\ UNCHANGED original_data
               ELSE /\ original_data' = Append(original_data, sent)
                    /\ ret' = Return(lines)
    /\ UNCHANGED <<field, vocab, created, vocab_from, tmp_tokenized_data, raw_data_hash, data_hash>>

\* A raw-data hash over the serialized list as a whole, which depends on its order.
RawDataHash_whole_list(acc, data) == update_data(acc, DumpsList(data))

RECURSIVE RawDataHash(_, _)
\* The first loop of process_before_vocab: update_data(dumps(data)) per record.
RawDataHash(acc, data) ==
    IF data = <<>> THEN acc
    ELSE RawDataHash(update_data(acc, DumpsStr(Head(data))), Tail(data))

RECURSIVE DataHash(_, _)
\* The second loop: update_data(dumps(tokenized_sent)) per tokenized sentence.
DataHash(acc, tokenized_sents) ==
    IF tokenized_sents = <<>> THEN acc
    ELSE DataHash(update_data(acc, DumpsList(Head(tokenized_sents))), Tail(tokenized_sents))

\* The tokens process_before_vocab hands to add_tokens.
RegisteredTokens(tokenized_sents) == chain(tokenized_sents)

\* Registering every content's tokens as training tokens.
RegisteredRole_train == "train"

\* The role process_before_vocab hands to add_tokens.
RegisteredRole == vocab_from[1]

\* _SentenceContent.process_before_vocab
process_before_vocab ==
    /\ created
    /\ Len(vocab.log) < MaxAddCalls
    /\ last_op' = "process_before_vocab"
    /\ arg' = None
    /\ LET tokenized_sents == tokenize_sentences(field.convert_to_lower_letter, original_data)
           added == add_tokens(vocab, RegisteredTokens(tokenized_sents), RegisteredRole)
       IN /\ raw_data_hash' = Some(hexdigest(RawDataHash(UnorderedSha256, original_data)))
          /\ tmp_tokenized_data' = Some(tokenized_sents)
          /\ data_hash' = Some(hexdigest(DataHash(UnorderedSha256, tokenized_sents)))
          /\ IF added.raised # ""
             THEN ret' = added /\ UNCHANGED vocab
             ELSE ret' = Return(None) /\ vocab' = added.value
    /\ UNCHANGED <<field, created, vocab_from, original_data>>

\* A get_data that tokenizes the stored records itself when nothing is cached.
GetDataSentences_fallback ==
    IF tmp_tokenized_data = None
    THEN tokenize_sentences(field.convert_to_lower_letter, original_data)
    ELSE tmp_tokenized_data[1]

\* The sentences get_data hands to process_sentences: None reads as empty.
GetDataSentences == IF tmp_tokenized_data = None THEN <<>> ELSE tmp_tokenized_data[1]

\* _SentenceContent.get_data; the vocabulary freezes at its first query.
get_data ==
    /\ created
    /\ last_op' = "get_data"
    /\ arg' = None
    /\ LET id_data == process_sentences(field.variant, Freeze(vocab.log), field,
                                        GetDataSentences, FALSE, TRUE, TRUE, FALSE)
       IN IF id_data.raised # ""
          THEN ret' = id_data /\ UNCHANGED vocab
          ELSE /\ ret' = Return([id |-> id_data.value, str |-> original_data])
               /\ vocab' = [vocab EXCEPT !.frozen = TRUE]
    /\ UNCHANGED <<field, created, vocab_from, original_data, tmp_tokenized_data,
                   raw_data_hash, data_hash>>

Next ==
    \/ \E set_name \in SetNames : _create(set_name)
    \/ \E line \in Lines : read_next(Some(line))
    \/ read_next(None)
    \/ process_before_vocab
    \/ get_data

Spec == Init /\ [][Next]_vars

\* ------------------------------------------------------- content life cycle

\* get_raw_data_hash / get_data_hash
get_raw_data_hash == IF raw_data_hash = None THEN Raise("AttributeError") ELSE Return(raw_data_hash[1])
get_data_hash == IF data_hash = None THEN Raise("AttributeError") ELSE Return(data_hash[1])

\* The orders in which the records of s can be ingested.
IngestionOrders(s) ==
    {[i \in 1..Len(s) |-> s[f[i]]] :
        f \in {g \in [1..Len(s) -> 1..Len(s)] : \A i, j \in 1..Len(s) : g[i] = g[j] => i = j}}

\* C1: a content that has just been through process_before_vocab holds the
\* raw-data hash and the tokenized-data hash that process_before_vocab computes
\* for every other ingestion order of the same multiset of records.
C1_HashOrderIndependent ==
    (last_op = "process_before_vocab") =>
        \A p \in IngestionOrders(original_data) :
            /\ get_raw_data_hash = Return(hexdigest(RawDataHash(UnorderedSha256, p)))
            /\ get_data_hash =
                   Return(hexdigest(DataHash(UnorderedSha256,
                              tokenize_sentences(field.convert_to_lower_letter, p))))

C1_Witness ==
    /\ last_op = "process_before_vocab"
    /\ Len(original_data) = 2
    /\ original_data[1] # original_data[2]
    /\ tmp_tokenized_data[1][1] # tmp_tokenized_data[1][2]
    /\ raw_data_hash # None
    /\ data_hash # None

\* C2: get_data on a content on which process_before_vocab was never called
\* raises, whatever has been ingested; it returns no data dictionary.
C2_GetDataBeforeFinalizeFails ==
    (last_op = "get_data" /\ tmp_tokenized_data = None /\ raw_data_hash = None) =>
        ret.raised # ""

C2_Witness ==
    /\ last_op = "get_data"
    /\ tmp_tokenized_data = None
    /\ Len(original_data) >= 2
    /\ ret = Raise("ValueError")

\* FINALIZED: process_before_vocab has run, or get_data has just been called.
Finalized == tmp_tokenized_data # None \/ last_op = "get_data"

\* C3: once the content is FINALIZED every read_next call fails with an error
\* and leaves the stored original elements (and so get_data_number) unchanged.
\* Stated for the calls that read a record: a blank line, read_next's
\* end-of-stream result, is left out.
C3_ReadNextAfterFinalizedFails ==
    [][(/\ Finalized
        /\ last_op' = "read_next"
        /\ arg' # None
        /\ rstrip(arg'[1]) # <<>>) =>
           (ret'.raised # "" /\ original_data' = original_data)]_vars

\* C4: a second process_before_vocab on the same content is rejected with an
\* error and registers nothing more in the vocabulary.
C4_SecondFinalizeRejected ==
    [][(tmp_tokenized_data # None /\ last_op' = "process_before_vocab") =>
           (ret'.raised # "" /\ vocab'.log = vocab.log)]_vars

\* The tokens of the model's alphabet.
TokenUniverse ==
    UNION {{t[j] : j \in 1..Len(t)} \cup {lower(t[j]) : j \in 1..Len(t)} :
              t \in {SplitFrom(l, 1, <<>>) : l \in Lines}}

\* Number of occurrences of token across the records, counted record by record
\* on the words of each record (lower-cased when the field says so).
OccurrencesInContent(token, records, convert_to_lower_letter) ==
    SumSeq([k \in 1..Len(records) |->
        LET words == SplitFrom(records[k], 1, <<>>) IN
        Cardinality({j \in 1..Len(words) :
            (IF convert_to_lower_letter THEN lower(words[j]) ELSE words[j]) = token})])

\* C5: a process_before_vocab that returns has made exactly one add_tokens
\* call, under the content's own role, and that call raised each token's
\* registered count under that role by its number of occurrences across the
\* content's records and no count under any other role.
C5_RegistersContentTokens ==
    [][(last_op' = "process_before_vocab" /\ ret'.raised = "") =>
           /\ Len(vocab'.log) = Len(vocab.log) + 1
           /\ vocab'.log[Len(vocab'.log)].vocab_from = vocab_from[1]
           /\ \A role \in Roles, token \in TokenUniverse :
                  VocabCount(vocab', role, token) - VocabCount(vocab, role, token) =
                      IF role = vocab_from[1]
                      THEN OccurrencesInContent(token, original_data,
                                                field.convert_to_lower_letter)
                      ELSE 0]_vars

C5_Witness ==
    /\ last_op = "process_before_vocab"
    /\ ret.raised = ""
    /\ Len(vocab.log) = 1
    /\ field.convert_to_lower_letter
    /\ vocab_from = Some("test")
    /\ \E k \in 1..Len(original_data) : \E c \in 1..Len(original_data[k]) : original_data[k][c] = "I"
    /\ VocabCount(vocab, "test", <<"i">>) >= 3

\* _FieldContent.get_data_number
get_data_number == Len(original_data)

\* The id sequence get_data holds for one record: its words converted with
\* the frozen vocabulary, wrapped and cut.
IdsOfRecord(record) ==
    CutSentence(field.max_sent_length,
                convert_tokens_to_ids(field.variant, Freeze(vocab.log),
                    tokenize_sentences(field.convert_to_lower_letter, <<record>>)[1],
                    TRUE, FALSE))

\* C14: a read_next that returns either appends the one non-empty record it
\* read at the end of the stored elements and returns 1, or read an empty
\* record, returns 0 and leaves them unchanged; nothing else changes the stored
\* elements, so get_data_number counts the calls that returned non-zero; and
\* the 'str' list get_data returns is the stored elements, as long as its 'id'
\* list, whose k-th entry is the id sequence of the k-th record.
C14_AppendOnlyAligned ==
    [][/\ (last_op' = "read_next" /\ ret'.raised = "") =>
              \/ /\ ret'.value = 1
                 /\ rstrip(arg'[1]) # <<>>
                 /\ original_data' = Append(original_data, rstrip(arg'[1]))
              \/ /\ ret'.value = 0
                 /\ rstrip(arg'[1]) = <<>>
                 /\ original_data' = original_data
       /\ ~(last_op' = "read_next" /\ ret'.raised = "") => original_data' = original_data
       /\ (last_op' = "get_data" /\ ret'.raised = "") =>
              /\ ret'.value.str = original_data
              /\ Len(ret'.value.id) = Len(ret'.value.str)
              /\ \A k \in 1..Len(ret'.value.id) :
                    ret'.value.id[k] = IdsOfRecord(ret'.value.str[k])]_vars

\* ------------------------------------------------- field operations on ids

\* Longest id sequence handed to add_special_to_ids / remove_special_in_ids.
MaxIdsLen == 5

\* A closed vocabulary as two contents leave it: "i" registered twice for
\* training, "I" seen in a test set only.
SampleLog ==
    << [tokens |-> << <<"i">>, <<"i">> >>, vocab_from |-> "train"],
       [tokens |-> << <<"I">> >>, vocab_from |-> "test"] >>

\* The vocabulary of a pretrained GPT2 tokenizer: no frequent/rare split, and
\* one boundary id, "<|endoftext|>", for pad, unknown, begin and end.
PretrainedVocab ==
    [all_vocab_list |-> << <<"i">>, <<"I">>, <<"i", "i">>, <<"<|endoftext|>">> >>,
     frequent_vocab_size |-> 4,
     pad_id |-> 3, unk_id |-> 3, go_id |-> 3, eos_id |-> 3]

\* The frozen vocabulary the field's operations read.
FieldVocab == IF field.variant = "Sentence" THEN Freeze(vocab.log) ELSE PretrainedVocab

VocabIds == 0..(Len(FieldVocab.all_vocab_list) - 1)

SeqsUpTo(S, n) == UNION {[1..m -> S] : m \in 0..n}

\* A field of either kind with a frozen vocabulary and no length limit.
InitIds ==
    /\ field \in [variant : Variants,
                  convert_to_lower_letter : {FALSE},
                  max_sent_length : {None},
                  vocab_from : {DEFAULT_VOCAB_FROM}]
    /\ vocab = [log |-> SampleLog, frozen |-> TRUE]
    /\ NoContent
    /\ last_op = ""
    /\ arg = None
    /\ ret = Return(None)

\* field.add_special_to_ids(ids); a behaviour is one call on the field.
AddSpecialToIds(ids) ==
    /\ last_op = ""
    /\ last_op' = "add_special_to_ids"
    /\ arg' = [ids |-> ids]
    /\ ret' = Return(add_special_to_ids(field.variant, FieldVocab, ids))
    /\ UNCHANGED <<field, vocab, contentVars>>

\* field.remove_special_in_ids(ids, remove_special, trim)
RemoveSpecialInIds(ids, remove_special, trim) ==
    /\ last_op = ""
    /\ last_op' = "remove_special_in_ids"
    /\ arg' = [ids |-> ids, remove_special |-> remove_special, trim |-> trim]
    /\ ret' = remove_special_in_ids(field.variant, FieldVocab, ids, remove_special, trim)
    /\ UNCHANGED <<field, vocab, contentVars>>

NextIds ==
    \/ /\ last_op = ""
       /\ \E ids \in SeqsUpTo(VocabIds, MaxIdsLen - 2) : AddSpecialToIds(ids)
    \/ /\ last_op = ""
       /\ \E ids \in SeqsUpTo(VocabIds, MaxIdsLen), remove_special, trim \in BOOLEAN :
              RemoveSpecialInIds(ids, remove_special, trim)

SpecIds == InitIds /\ [][NextIds]_vars

AllIn(s, S) == \A i \in 1..Len(s) : s[i] \in S

Repeat(x, n) == [i \in 1..n |-> x]

\* C6: for the Sentence field, remove_special_in_ids with remove_special and
\* trim set, applied to add_special_to_ids(s) followed by any number of pad
\* ids, returns s, for every sequence s holding no pad, go or eos id.
C6_SentenceRoundTrip ==
    (/\ field.variant = "Sentence"
     /\ last_op = "remove_special_in_ids"
     /\ arg.remove_special
     /\ arg.trim) =>
        \A n \in 0..(Len(arg.ids) - 2) :
            LET s == SubSeq(arg.ids, 2, n + 1)
                v == FieldVocab
            IN (/\ AllIn(s, VocabIds \ {v.pad_id, v.go_id, v.eos_id})
                /\ arg.ids = Sentence_add_special_to_ids(v, s)
                                 \o Repeat(v.pad_id, Len(arg.ids) - n - 2))
               => ret = Return(s)

C6_Witness ==
    /\ field.variant = "Sentence"
    /\ last_op = "remove_special_in_ids"
    /\ arg.remove_special
    /\ arg.trim
    /\ arg.ids = <<GoId, 4, 5, EosId, PadId>>
    /\ ret = Return(<<4, 5>>)

\* C7: for the SentenceGPT2 field, remove_special_in_ids with remove_special
\* and trim set, applied to [boundary] + s + [boundary] + any suffix, returns
\* s, for every sequence s that does not hold the boundary id.
C7_GPT2BoundaryTrim ==
    (/\ field.variant = "SentenceGPT2"
     /\ last_op = "remove_special_in_ids"
     /\ arg.remove_special
     /\ arg.trim) =>
        \A n \in 0..(Len(arg.ids) - 2) :
            LET s == SubSeq(arg.ids, 2, n + 1)
                v == FieldVocab
            IN (/\ AllIn(s, VocabIds \ {v.eos_id})
                /\ SubSeq(arg.ids, 1, n + 2) = SentenceGPT2_add_special_to_ids(v, s))
               => ret = Return(s)

C7_Witness ==
    /\ field.variant = "SentenceGPT2"
    /\ last_op = "remove_special_in_ids"
    /\ arg.remove_special
    /\ arg.trim
    /\ arg.ids = <<3, 1, 2, 3, 0>>
    /\ ret = Return(<<1, 2>>)

\* ------------------------------------------- process_sentences and batches

\* At most this many sentences are processed or stored at once.
MaxSentences == 2
\* At most this many indexes are asked for in a batch.
MaxIndexes == 2

\* The records read_next can store: the stripped, non-empty lines.
Records == {rstrip(l) : l \in Lines} \ {<<>>}

\* A field of either kind, with any length limit, its vocabulary frozen.
InitBatch ==
    /\ field \in [variant : Variants,
                  convert_to_lower_letter : {FALSE},
                  max_sent_length : {None} \cup {Some(m) : m \in 0..MaxSentLength},
                  vocab_from : {DEFAULT_VOCAB_FROM}]
    /\ vocab = [log |-> SampleLog, frozen |-> TRUE]
    /\ NoContent
    /\ last_op = ""
    /\ arg = None
    /\ ret = Return(None)

\* field.process_sentences(sentences, add_special, cut, only_frequent_word)
ProcessSentences(sentences, is_str, add_special, cut, only_frequent_word) ==
    /\ last_op = ""
    /\ last_op' = "process_sentences"
    /\ arg' = [sentences |-> sentences, is_str |-> is_str, add_special |-> add_special,
               cut |-> cut, only_frequent_word |-> only_frequent_word]
    /\ ret' = process_sentences(field.variant, FieldVocab, field, sentences, is_str,
                                add_special, cut, only_frequent_word)
    /\ UNCHANGED <<field, vocab, contentVars>>

\* What get_data returns for a content holding the records strs, finalized.
DataOf(strs) ==
    [id |-> process_sentences(field.variant, FieldVocab, field,
                              tokenize_sentences(field.convert_to_lower_letter, strs),
                              FALSE, TRUE, TRUE, FALSE).value,
     str |-> strs]

\* _SentenceContent.get_data as a function of the content's fields.
_SentenceContent_get_data(_tmp_tokenized_data, _original_data) ==
    LET id_data == process_sentences(field.variant, FieldVocab, field,
                                     IF _tmp_tokenized_data = None THEN <<>>
                                     ELSE _tmp_tokenized_data[1],
                                     FALSE, TRUE, TRUE, FALSE)
    IN IF id_data.raised # "" THEN id_data
       ELSE Return([id |-> id_data.value, str |-> _original_data])

\* content.get_data() on a content that ingested the records strs and went
\* through process_before_vocab.
GetData(strs) ==
    /\ last_op = ""
    /\ last_op' = "get_data"
    /\ arg' = [str |-> strs]
    /\ ret' = _SentenceContent_get_data(
                  Some(tokenize_sentences(field.convert_to_lower_letter, strs)), strs)
    /\ UNCHANGED <<field, vocab, contentVars>>

\* field._get_batch(name, data, indexes)
GetBatch(data, indexes) ==
    /\ last_op = ""
    /\ last_op' = "_get_batch"
    /\ arg' = [data |-> data, indexes |-> indexes]
    /\ ret' = _get_batch(field.variant, FieldVocab, data, indexes)
    /\ UNCHANGED <<field, vocab, contentVars>>

NextBatch ==
    \/ /\ last_op = ""
       /\ \E strs \in SeqsUpTo(Records \cup {<<>>}, MaxSentences),
             add_special, cut, only_frequent_word \in BOOLEAN :
              ProcessSentences(strs, TRUE, add_special, cut, only_frequent_word)
    \/ /\ last_op = ""
       /\ \E strs \in SeqsUpTo(Records \cup {<<>>}, MaxSentences),
             add_special, cut, only_frequent_word \in BOOLEAN :
              ProcessSentences(Tokenizer_tokenize_sentences(strs), FALSE,
                               add_special, cut, only_frequent_word)
    \/ /\ last_op = ""
       /\ \E strs \in SeqsUpTo(Records, MaxSentences) \ {<<>>},
             indexes \in SeqsUpTo((-MaxSentences - 1)..MaxSentences, MaxIndexes) :
              GetBatch(DataOf(strs), indexes)
    \/ /\ last_op = ""
       /\ \E strs \in SeqsUpTo(Records, MaxSentences) : GetData(strs)

SpecBatch == InitBatch /\ [][NextBatch]_vars

\* The cell (row k, column c) before masking: the id at position c of the
\* sequence the k-th index selects, or the pad value beyond its end.
OriginalCell(data_id, indexes, k, c, pad) ==
    LET sent == Index(data_id, indexes[k]) IN
    IF c <= Len(sent) THEN sent[c] ELSE pad

\* C8: in every batch Sentence._get_batch returns, each cell of the allvocabs
\* array holds the original id (the pad value 0 in padded cells), and the same
\* cell of the masked array holds the unknown id where that id is at or beyond
\* frequent_vocab_size and the original id otherwise.
C8_FrequentMasking ==
    (/\ field.variant = "Sentence"
     /\ last_op = "_get_batch"
     /\ ret.raised = "") =>
        LET batch == ret.value
            v == FieldVocab
        IN /\ Len(batch.allvocabs) = Len(arg.indexes)
           /\ Len(batch.sent) = Len(arg.indexes)
           /\ \A k \in 1..Len(arg.indexes) :
                /\ Len(batch.sent[k]) = Len(batch.allvocabs[k])
                /\ \A c \in 1..Len(batch.allvocabs[k]) :
                     LET orig == OriginalCell(arg.data.id, arg.indexes, k, c, 0) IN
                     /\ batch.allvocabs[k][c] = orig
                     /\ batch.sent[k][c] =
                            IF orig >= v.frequent_vocab_size THEN v.unk_id ELSE orig

\* A batch with a padded cell and with the first rare id (frequent_vocab_size
\* itself) masked in one array and kept in the other.
C8_Witness ==
    /\ field.variant = "Sentence"
    /\ last_op = "_get_batch"
    /\ ret.raised = ""
    /\ Len(arg.indexes) = 2
    /\ Len(ret.value.allvocabs[1]) > ret.value.length[1]
    /\ \E c \in 1..Len(ret.value.allvocabs[2]) :
          /\ ret.value.allvocabs[2][c] = FieldVocab.frequent_vocab_size
          /\ ret.value.sent[2][c] = UnkId

\* The words of sentence k as process_sentences sees them.
TokensOfSentence(k) ==
    IF arg.is_str
    THEN LET words == SplitFrom(arg.sentences[k], 1, <<>>) IN
         IF field.convert_to_lower_letter
         THEN [j \in 1..Len(words) |-> lower(words[j])]
         ELSE words
    ELSE arg.sentences[k]

\* The id sequence of sentence k before the cut: wrapped when add_special.
UncutIds(k) ==
    LET ids == Vocab_convert_tokens_to_ids(FieldVocab, TokensOfSentence(k),
                                           arg.only_frequent_word)
        boundary == IF field.variant = "Sentence" THEN FieldVocab.go_id ELSE FieldVocab.eos_id
    IN IF arg.add_special THEN <<boundary>> \o ids \o <<FieldVocab.eos_id>> ELSE ids

\* C9: process_sentences returns one id sequence per sentence, in order; with
\* cut set and max_sent_length = m it is the first min(L, m) ids of the
\* sentence's length-L id sequence, wrapped first when add_special is set, for
\* either field; with max_sent_length None or cut unset it is the whole
\* sequence.
C9_CutAfterWrap ==
    (last_op = "process_sentences" /\ ret.raised = "") =>
        /\ Len(ret.value) = Len(arg.sentences)
        /\ \A k \in 1..Len(arg.sentences) :
             LET full == UncutIds(k) IN
             ret.value[k] =
                 IF arg.cut /\ field.max_sent_length # None
                 THEN [c \in 1..Min(Len(full), field.max_sent_length[1]) |-> full[c]]
                 ELSE full

\* A SentenceGPT2 call on two raw strings that cuts a wrapped four-id
\* sequence to three ids, its closing boundary id lost.
C9_Witness ==
    /\ field.variant = "SentenceGPT2"
    /\ last_op = "process_sentences"
    /\ ret.raised = ""
    /\ arg.is_str /\ arg.add_special /\ arg.cut
    /\ field.max_sent_length = Some(3)
    /\ Len(arg.sentences) = 2
    /\ ret.value[1] = <<3, 1, 0>>
    /\ ret.value[2] = <<3, 0, 3>>

\* N, the number of stored sequences of the batch's data.
DataNumber == Len(arg.data.id)

\* C10 as claimed: _get_batch raises whenever an index is outside 0..N-1.
C10_OutOfRangeFails ==
    (/\ last_op = "_get_batch"
     /\ \E k \in 1..Len(arg.indexes) : arg.indexes[k] \notin 0..(DataNumber - 1)) =>
        ret.raised # ""

\* C10, amended: _get_batch raises whenever an index i has i >= N or i < -N.
C10_BeyondListFails ==
    (/\ last_op = "_get_batch"
     /\ \E k \in 1..Len(arg.indexes) :
           arg.indexes[k] >= DataNumber \/ arg.indexes[k] < -DataNumber) =>
        ret.raised # ""

\* A batch asked for a valid index and one just below -N.
C10_Witness ==
    /\ last_op = "_get_batch"
    /\ DataNumber = 2
    /\ arg.indexes = <<0, -3>>
    /\ ret = Raise("IndexError")

\* C12 as claimed: process_sentences raises ValueError when the list of
\* sentences is empty and when pre-tokenized input contains an empty token
\* sequence, at whatever position; get_data on a finalized content that
\* ingested no record raises it too.
C12_AnyEmptyRejected ==
    /\ (last_op = "process_sentences" /\ arg.sentences = <<>>) => ret = Raise("ValueError")
    /\ (/\ last_op = "process_sentences"
        /\ ~arg.is_str
        /\ \E k \in 1..Len(arg.sentences) : arg.sentences[k] = <<>>) =>
           ret = Raise("ValueError")
    /\ (last_op = "get_data" /\ arg.str = <<>>) => ret = Raise("ValueError")

\* C12, amended: process_sentences raises ValueError when the list of
\* sentences is empty and when the first sentence of pre-tokenized input is an
\* empty token sequence; get_data on a finalized content that ingested no
\* record raises it too.
C12_EmptyInputRejected ==
    /\ (last_op = "process_sentences" /\ arg.sentences = <<>>) => ret = Raise("ValueError")
    /\ (/\ last_op = "process_sentences"
        /\ ~arg.is_str
        /\ arg.sentences # <<>>
        /\ arg.sentences[1] = <<>>) =>
           ret = Raise("ValueError")
    /\ (last_op = "get_data" /\ arg.str = <<>>) => ret = Raise("ValueError")

\* Pre-tokenized input whose first sentence has no token and whose second has
\* one, rejected.
C12_Witness ==
    /\ last_op = "process_sentences"
    /\ ~arg.is_str
    /\ Len(arg.sentences) = 2
    /\ arg.sentences[1] = <<>>
    /\ arg.sentences[2] # <<>>
    /\ ret = Raise("ValueError")

\* The indexes of the batch are a non-empty list over 0..N-1.
ValidIndexes ==
    /\ arg.indexes # <<>>
    /\ \A k \in 1..Len(arg.indexes) : arg.indexes[k] \in 0..(DataNumber - 1)

\* The stored id sequence the k-th index selects.
SelectedSeq(k) == arg.data.id[arg.indexes[k] + 1]

\* The value of the padded cells: 0 for Sentence, the boundary id for SentenceGPT2.
PadValue == IF field.variant = "Sentence" THEN 0 ELSE FieldVocab.eos_id

\* rows has one row per index, each as wide as the longest selected sequence.
HasBatchShape(rows) ==
    /\ Len(rows) = Len(arg.indexes)
    /\ \A k \in 1..Len(rows) :
          /\ Len(rows[k]) = Len(rows[1])
          /\ Len(SelectedSeq(k)) <= Len(rows[1])
    /\ \E k \in 1..Len(rows) : Len(SelectedSeq(k)) = Len(rows[1])

\* The id of cell (k, c): the c-th id of the selected sequence, or the pad value.
CellOf(k, c) == IF c <= Len(SelectedSeq(k)) THEN SelectedSeq(k)[c] ELSE PadValue

\* The lengths and the strings of the batch follow the indexes.
LengthAndStrFollowIndexes(batch) ==
    /\ Len(batch.length) = Len(arg.indexes)
    /\ Len(batch.str) = Len(arg.indexes)
    /\ \A k \in 1..Len(arg.indexes) :
          /\ batch.length[k] = Len(SelectedSeq(k))
          /\ batch.str[k] = arg.data.str[arg.indexes[k] + 1]

\* C13 as claimed: for a non-empty list of valid indexes _get_batch returns
\* the arrays '<name>' and '<name>_allvocabs', both of shape [len(indexes), max
\* selected length], both holding in row k the ids of sequence indexes[k]
\* left-aligned and the pad value beyond; the lengths and the strings follow
\* the indexes.
C13_BothArraysHoldIds ==
    (last_op = "_get_batch" /\ ValidIndexes) =>
        /\ ret.raised = ""
        /\ HasBatchShape(ret.value.sent)
        /\ HasBatchShape(ret.value.allvocabs)
        /\ \A k \in 1..Len(arg.indexes) : \A c \in 1..Len(ret.value.allvocabs[k]) :
              /\ ret.value.allvocabs[k][c] = CellOf(k, c)
              /\ ret.value.sent[k][c] = CellOf(k, c)
        /\ LengthAndStrFollowIndexes(ret.value)

\* C13, amended: as claimed for '<name>_allvocabs', the lengths and the
\* strings; '<name>' has the same shape and the same cells, except that for
\* Sentence a cell whose id is at or beyond frequent_vocab_size holds the
\* unknown id.
C13_BatchLayout ==
    (last_op = "_get_batch" /\ ValidIndexes) =>
        /\ ret.raised = ""
        /\ HasBatchShape(ret.value.sent)
        /\ HasBatchShape(ret.value.allvocabs)
        /\ \A k \in 1..Len(arg.indexes) : \A c \in 1..Len(ret.value.allvocabs[k]) :
              /\ ret.value.allvocabs[k][c] = CellOf(k, c)
              /\ ret.value.sent[k][c] =
                     IF /\ field.variant = "Sentence"
                        /\ CellOf(k, c) >= FieldVocab.frequent_vocab_size
                     THEN FieldVocab.unk_id
                     ELSE CellOf(k, c)
        /\ LengthAndStrFollowIndexes(ret.value)

\* A SentenceGPT2 batch of two rows in the order <<1, 0>>, the second row
\* shorter than the first and padded with the boundary id.
C13_Witness ==
    /\ field.variant = "SentenceGPT2"
    /\ last_op = "_get_batch"
    /\ ret.raised = ""
    /\ arg.indexes = <<1, 0>>
    /\ ret.value.length = <<4, 3>>
    /\ ret.value.allvocabs[2][4] = FieldVocab.eos_id
    /\ ret.value.sent = ret.value.allvocabs
    /\ ret.value.str[1] = arg.data.str[2]
    /\ arg.data.str[1] # arg.data.str[2]

\* A Sentence batch with the same index twice: two equal rows.
C13_RepeatedWitness ==
    /\ field.variant = "Sentence"
    /\ last_op = "_get_batch"
    /\ ret.raised = ""
    /\ arg.indexes = <<1, 1>>
    /\ DataNumber = 2
    /\ ret.value.allvocabs[1] = ret.value.allvocabs[2]
    /\ ret.value.str[1] = ret.value.str[2]

\* ------------------------------------------------ field construction and _create

\* FieldContext.get(key, default) inside the constructor's own scope: the
\* argument when one was given, the default otherwise.
FieldContext_get(override, default) == IF override = None THEN default ELSE override[1]

\* A mapping that sends "dev" to the role "extra".
ExtraVocabFrom == [n \in {"train", "dev"} |-> IF n = "train" THEN "train" ELSE "extra"]

\* A mapping whose value for "dev" is the split's name, which is no role.
UnknownRoleVocabFrom == [n \in {"train", "dev"} |-> n]

\* The vocab_from arguments a field is constructed with.
VocabFromArgs == {None, Some(ExtraVocabFrom), Some(UnknownRoleVocabFrom)}

\* The tokenizer arguments, by type: none given, a str, a BaseTokenizer that is
\* not pretrained, a PretrainedTokenizer of class GPT2Tokenizer, anything else.
TokenizerArgs ==
    {None, Some("str"), Some("BaseTokenizer"), Some("GPT2Tokenizer"), Some("other")}

\* SentenceBase.__init__: the settings are resolved through FieldContext and
\* stored as they are; only the tokenizer's type is looked at.
SentenceBase_init(variant, tokenizer, vocab_from_arg, max_sent_length, convert_to_lower_letter) ==
    IF tokenizer = None THEN Raise("KeyError")
    ELSE IF tokenizer[1] \notin {"str", "BaseTokenizer", "GPT2Tokenizer"} THEN Raise("TypeError")
    ELSE Return([variant |-> variant,
                 convert_to_lower_letter |-> FieldContext_get(convert_to_lower_letter, FALSE),
                 max_sent_length |-> max_sent_length,
                 vocab_from |-> FieldContext_get(vocab_from_arg, DEFAULT_VOCAB_FROM)])

\* SentenceGPT2.__init__: SentenceBase.__init__, then the tokenizer must be a
\* pretrained GPT2 tokenizer.
SentenceGPT2_init(tokenizer, vocab_from_arg, max_sent_length, convert_to_lower_letter) ==
    LET base == SentenceBase_init("SentenceGPT2", tokenizer, vocab_from_arg,
                                  max_sent_length, convert_to_lower_letter)
    IN IF base.raised # "" THEN base
       ELSE IF tokenizer[1] # "GPT2Tokenizer" THEN Raise("ValueError")
       ELSE base

\* Sentence(...) or SentenceGPT2(...)
Field_init(variant, tokenizer, vocab_from_arg, max_sent_length, convert_to_lower_letter) ==
    IF variant = "Sentence"
    THEN SentenceBase_init("Sentence", tokenizer, vocab_from_arg, max_sent_length,
                           convert_to_lower_letter)
    ELSE SentenceGPT2_init(tokenizer, vocab_from_arg, max_sent_length, convert_to_lower_letter)

\* Before the constructor call: no field yet, an empty vocabulary, no content.
InitCreate ==
    /\ field = None
    /\ vocab = EmptyVocab
    /\ NoContent
    /\ last_op = ""
    /\ arg = None
    /\ ret = Return(None)

\* Sentence(tokenizer, vocab, vocab_from) or SentenceGPT2(...): the field
\* exists when the constructor returns.
Construct(variant, tokenizer, vocab_from_arg) ==
    /\ field = None
    /\ last_op' = "__init__"
    /\ arg' = [variant |-> variant, tokenizer |-> tokenizer, vocab_from |-> vocab_from_arg]
    /\ LET made == Field_init(variant, tokenizer, vocab_from_arg, None, None) IN
       IF made.raised # ""
       THEN ret' = made /\ UNCHANGED field
       ELSE ret' = Return(None) /\ field' = made.value
    /\ UNCHANGED <<vocab, contentVars>>

\* The field is constructed, creates one content and ingests into it.
NextCreate ==
    \/ \E variant \in Variants, tokenizer \in TokenizerArgs, vocab_from_arg \in VocabFromArgs :
          Construct(variant, tokenizer, vocab_from_arg)
    \/ /\ field # None
       /\ \E set_name \in SetNames : _create(set_name)
    \/ \E line \in Lines : read_next(Some(line))
    \/ read_next(None)

SpecCreate == InitCreate /\ [][NextCreate]_vars

\* The mapping holds a value that is none of the roles.
HasUnknownRole(mapping) == \E n \in DOMAIN mapping : mapping[n] \notin Roles

\* C11: every content _create returns has one of the roles "train", "test",
\* "extra"; a split name missing from the field's mapping makes _create raise
\* KeyError and create no content; and a constructor call whose mapping holds
\* an unknown role name is rejected, so that no field holds such a mapping.
C11_CreateRolesValid ==
    /\ created => vocab_from[1] \in Roles
    /\ (last_op = "_create" /\ arg \notin DOMAIN field.vocab_from) =>
           (ret = Raise("KeyError") /\ ~created)
    /\ (/\ last_op = "__init__"
        /\ arg.vocab_from # None
        /\ HasUnknownRole(arg.vocab_from[1])) => ret.raised # ""
    /\ field # None => ~HasUnknownRole(field.vocab_from)

====
